---------------------------- MODULE Spec2Model ----------------------------
(***************************************************************************)
(* A model of the square-root Unscented Kalman Filter of                   *)
(* UKFpython/src/ukf/ukfFMU.py (class ukfFMU).                             *)
(*                                                                         *)
(* Numbers are exact rationals <<num, den>> (den > 0, lowest terms)        *)
(* extended with the three IEEE specials a numpy computation can produce   *)
(* without raising: <<1,0>> (+inf), <<-1,0>> (-inf) and <<0,0>> (nan).     *)
(* Rounding and the sign of zero are not modelled.                         *)
(***************************************************************************)
EXTENDS Integers, Sequences, FiniteSets, TLC

VARIABLES
    \* ---- the model's dimensions, read at construction (ukfFMU.__init__)
    n_state, n_state_obs, n_pars, n_outputs, augmented, N,
    \* ---- the weight table
    alpha, beta, k, lambd, sqrtC, W_m, W_c,
    \* ---- the last call made on the weight table and the exception it raised
    call, raised,
    \* ---- the constraint table
    ConstrStateHigh, ConstrStateLow, ConstrStateValueHigh, ConstrStateValueLow,
    ConstrParsHigh, ConstrParsLow, ConstrParsValueHigh, ConstrParsValueLow,
    \* ---- a call of the sigma-point generator: position, arguments, results
    pc, arg, Xs, Xave, exc,
    \* ---- a call of cholUpdate / computeS: the caller's arrays L and X as they
    \*      are after the call, and the array returned
    cholL, cholX, cholRet,
    \* ---- the model's stored state and parameters, its measurement series
    model, measuredOuts,
    \* ---- the simulator pool: its size and the batch in flight
    pool,
    \* ---- filter: the loop counter i and the lists x and sqrtP
    iStep, xList, sqrtPList,
    \* ---- ukf_step: its locals; the calls made on the model and the pool so
    \*      far; the value returned by the outermost call; which call that is
    frame, trace, ret, mode,
    \* ---- smooth: the caller's arrays Xhat and S, the copies, the index i
    Xhat, S_hat, Xsmooth, Ssmooth, iSmooth

dimVars    == <<n_state, n_state_obs, n_pars, n_outputs, augmented, N>>
paramVars  == <<alpha, beta, k, lambd, sqrtC, W_m, W_c>>
constrVars == <<ConstrStateHigh, ConstrStateLow, ConstrStateValueHigh,
                ConstrStateValueLow, ConstrParsHigh, ConstrParsLow,
                ConstrParsValueHigh, ConstrParsValueLow>>
sigmaVars  == <<pc, arg, Xs, Xave, exc>>
cholVars   == <<cholL, cholX, cholRet>>
filterVars == <<model, measuredOuts, pool, iStep, xList, sqrtPList, frame, trace,
                ret, mode>>
smoothVars == <<Xhat, S_hat, Xsmooth, Ssmooth, iSmooth>>
vars       == <<dimVars, paramVars, call, raised, constrVars, sigmaVars, cholVars,
                filterVars, smoothVars>>

---------------------------------------------------------------------------
\* Bounds of the model.
MaxStates  == 2     \* largest number of state variables of a model
MaxPars    == 1     \* largest number of estimated parameters
MaxOutputs == 1     \* largest number of measured outputs

---------------------------------------------------------------------------
\* Exact arithmetic on extended rationals.

Abs(i) == IF i < 0 THEN -i ELSE i
Sgn(i) == IF i < 0 THEN -1 ELSE IF i = 0 THEN 0 ELSE 1

RECURSIVE GCD(_, _)
GCD(a, b) == IF b = 0 THEN a ELSE GCD(b, a % b)

Norm(n, d) ==
    IF d = 0 THEN <<Sgn(n), 0>>
    ELSE LET g == GCD(Abs(n), Abs(d))
             s == IF d < 0 THEN -1 ELSE 1
         IN  <<(s * n) \div g, (s * d) \div g>>

R(i)  == <<i, 1>>
Zero  == <<0, 1>>
One   == <<1, 1>>
NaN   == <<0, 0>>
PInf  == <<1, 0>>

IsNaN(a)    == a = NaN
IsFinite(a) == a[2] # 0

Neg(a)    == <<-a[1], a[2]>>
Add(a, b) ==
    IF a[2] = 0 /\ b[2] = 0 THEN (IF a = b THEN a ELSE NaN)
    ELSE Norm(a[1] * b[2] + b[1] * a[2], a[2] * b[2])
Sub(a, b) == Add(a, Neg(b))
Mul(a, b) == Norm(a[1] * b[1], a[2] * b[2])
Inv(a)    == IF a[1] = 0 THEN (IF a[2] = 0 THEN NaN ELSE PInf) ELSE Norm(a[2], a[1])
\* numpy's float division: x/0 is +-inf or nan (a RuntimeWarning, no exception)
Div(a, b) == Mul(a, Inv(b))
\* a < b; every comparison with nan is False
Lt(a, b)  ==
    /\ ~IsNaN(a) /\ ~IsNaN(b)
    /\ IF a[2] = 0 /\ b[2] = 0 THEN a[1] < b[1] ELSE a[1] * b[2] < b[1] * a[2]
Gt(a, b)  == Lt(b, a)

\* the largest r in lo..hi with r*r <= n, by bisection
RECURSIVE RootBelow(_, _, _)
RootBelow(n, lo, hi) ==
    IF lo >= hi THEN lo
    ELSE LET mid == (lo + hi + 1) \div 2
         IN  IF mid * mid <= n THEN RootBelow(n, mid, hi) ELSE RootBelow(n, lo, mid - 1)
ISqrt(n)    == RootBelow(n, 0, IF n < 46340 THEN n ELSE 46340)
IsSquare(n) == n >= 0 /\ ISqrt(n) * ISqrt(n) = n
\* the values whose square root is again an extended rational
ExactSqrt(a) == a[2] = 0 \/ a[1] < 0 \/ (IsSquare(a[1]) /\ IsSquare(a[2]))
\* np.sqrt: nan for a negative argument (a RuntimeWarning, no exception)
Sqrt(a) ==
    IF a[2] = 0 THEN (IF a = PInf THEN PInf ELSE NaN)
    ELSE IF a[1] < 0 THEN NaN
    ELSE <<ISqrt(a[1]), ISqrt(a[2])>>

\* Python 2's "/" on two ints: floor division
FloorDiv(a, b) == IF b > 0 THEN a \div b ELSE (-a) \div (-b)

\* A signed square root sgn*sqrt(sq) of a rational sq >= 0: the form of alpha
\* (1/sqrt(3) by default) and of sqrtC = alpha*sqrt(N + k).
Root(sgn, sq)  == [sgn |-> sgn, sq |-> sq]
RootNaN        == [sgn |-> 0, sq |-> NaN]
RootOfRat(a)   == Root(Sgn(a[1]), Mul(a, a))
RootSquare(r)  == r.sq
RootIsRat(r)   == ExactSqrt(r.sq)
RootVal(r)     == IF IsNaN(r.sq) THEN NaN ELSE Mul(R(r.sgn), Sqrt(r.sq))

---------------------------------------------------------------------------
\* The weight table: setDefaultUKFparams, setUKFparams, computeWeights.

\* alpha**2*(n + k) - n
Lambda(a, n, kk) == Sub(Mul(RootSquare(a), R(n + kk)), R(n))

\* alpha*np.sqrt(n + k): nan when n + k < 0
SqrtC(a, n, kk) ==
    IF n + kk < 0 THEN RootNaN
    ELSE IF a.sgn = 0 \/ n + kk = 0 THEN Root(0, Zero)
    ELSE Root(a.sgn, Mul(a.sq, R(n + kk)))

\* computeWeights: the two vectors are first replaced by zeros, then filled.
\* kind is the type of lambd: a Python int, a Python float or a numpy float.
\* Python's own "/" raises ZeroDivisionError, numpy's gives inf or nan.
computeWeights(n, lam, a, be, kind) ==
    LET zeros == [i \in 1..(1 + 2 * n) |-> Zero]
        den   == Add(R(n), lam)
        w0    == IF kind = "int" THEN R(FloorDiv(lam[1], den[1])) ELSE Div(lam, den)
        wi    == Div(One, Mul(R(2), den))
        c0    == Add(w0, Add(Sub(One, RootSquare(a)), be))
    IN  IF kind # "numpy" /\ den = Zero
        THEN [W_m |-> zeros, W_c |-> zeros, raised |-> "ZeroDivisionError"]
        ELSE [W_m |-> [i \in 1..(1 + 2 * n) |-> IF i = 1 THEN w0 ELSE wi],
              W_c |-> [i \in 1..(1 + 2 * n) |-> IF i = 1 THEN c0 ELSE wi],
              raised |-> "none"]

\* alpha = 1.0/np.sqrt(3.0), a numpy float
DefaultAlpha == [val |-> Root(1, <<1, 3>>), kind |-> "numpy"]
\* the alpha of setDefaultUKFparams: 0.01, a Python float
SmallAlpha   == [val |-> Root(1, <<1, 10000>>), kind |-> "float"]
DefaultBeta  == 2
\* the argument k: None (the default) is [given |-> FALSE]
None         == [given |-> FALSE, val |-> 0]
Some(v)      == [given |-> TRUE, val |-> v]

\* The arguments a caller may pass for alpha: the value and its Python type.
AlphaInputs ==
    { DefaultAlpha, SmallAlpha,
      [val |-> RootOfRat(R(0)),   kind |-> "float"],
      [val |-> RootOfRat(R(0)),   kind |-> "numpy"],
      [val |-> RootOfRat(R(-1)),  kind |-> "float"],
      [val |-> RootOfRat(<<1, 2>>), kind |-> "float"],
      [val |-> RootOfRat(R(1)),   kind |-> "float"],
      [val |-> RootOfRat(R(1)),   kind |-> "int"],
      [val |-> RootOfRat(R(2)),   kind |-> "int"] }
BetaInputs  == {0, 2}
KInputs(n)  == {None} \cup {Some(v) : v \in (-n - 1)..1}

\* the state setUKFparams(alpha, beta, k) leaves
setUKFparams(n, a, be, kk) ==
    LET kv  == IF ~kk.given THEN 3 - n ELSE kk.val
        lam == Lambda(a.val, n, kv)
        w   == computeWeights(n, lam, a.val, R(be), a.kind)
    IN  [alpha |-> a.val, beta |-> be, k |-> kv, lambd |-> lam,
         sqrtC |-> SqrtC(a.val, n, kv), W_m |-> w.W_m, W_c |-> w.W_c,
         raised |-> w.raised]

\* the state setDefaultUKFparams() leaves
setDefaultUKFparams(n) == setUKFparams(n, SmallAlpha, DefaultBeta, Some(1))

\* N and the checks of __init__
NumSigma(no, np, ny, aug) == IF aug THEN no + np + no + np + ny ELSE no + np

Install(p) ==
    /\ alpha' = p.alpha /\ beta' = p.beta /\ k' = p.k /\ lambd' = p.lambd
    /\ sqrtC' = p.sqrtC /\ W_m' = p.W_m /\ W_c' = p.W_c /\ raised' = p.raised

\* The filter just constructed: __init__ ends with setUKFparams().
Constructed(ns, no, np, ny, aug) ==
    LET n == NumSigma(no, np, ny, aug)
        p == setUKFparams(n, DefaultAlpha, DefaultBeta, None)
    IN  /\ n_state = ns /\ n_state_obs = no /\ n_pars = np /\ n_outputs = ny
        /\ augmented = aug /\ N = n
        /\ alpha = p.alpha /\ beta = p.beta /\ k = p.k /\ lambd = p.lambd
        /\ sqrtC = p.sqrtC /\ W_m = p.W_m /\ W_c = p.W_c /\ raised = p.raised

---------------------------------------------------------------------------
\* Vectors are sequences of numbers, matrices sequences of rows.  Source index
\* i (from 0) is index i + 1 here.

Min(a, b) == IF a < b THEN a ELSE b
Zeros(n)  == [j \in 1..n |-> Zero]
ZeroMatrix(r, c) == [i \in 1..r |-> Zeros(c)]
Cols(M)   == IF Len(M) = 0 THEN 0 ELSE Len(M[1])

\* s[a:b]
SliceLen(len, a, b) == LET hi == Min(b, len) IN IF hi > a THEN hi - a ELSE 0
PySlice(s, a, b)    == [j \in 1..SliceLen(Len(s), a, b) |-> s[a + j]]

---------------------------------------------------------------------------
\* The constraint table and constrainedState.

\* __init__: every constraint inactive, every threshold 0
DefaultConstraints ==
    /\ ConstrStateHigh = [i \in 1..n_state_obs |-> FALSE]
    /\ ConstrStateLow  = [i \in 1..n_state_obs |-> FALSE]
    /\ ConstrStateValueHigh = Zeros(n_state_obs)
    /\ ConstrStateValueLow  = Zeros(n_state_obs)
    /\ ConstrParsHigh = [i \in 1..n_pars |-> FALSE]
    /\ ConstrParsLow  = [i \in 1..n_pars |-> FALSE]
    /\ ConstrParsValueHigh = Zeros(n_pars)
    /\ ConstrParsValueLow  = Zeros(n_pars)

\* if the constraint is active and the threshold is violated
ClipHigh(v, active, bound) == IF active /\ Gt(v, bound) THEN bound ELSE v
ClipLow(v, active, bound)  == IF active /\ Lt(v, bound) THEN bound ELSE v

\* The source indices of X that constrainedState reads: X[i] for an observed
\* state i, X[n_state + i] for an estimated parameter i, each only when one of
\* its two constraints is active ("active and X[..] > bound" short-circuits).
ConstrReads ==
    {i \in 0..(n_state_obs - 1) : ConstrStateHigh[i + 1] \/ ConstrStateLow[i + 1]}
    \cup {n_state + i : i \in {i \in 0..(n_pars - 1) :
                                 ConstrParsHigh[i + 1] \/ ConstrParsLow[i + 1]}}

\* the entry of source index j after the two loops
ConstrEntry(v, j) ==
    IF j < n_state_obs
    THEN ClipLow(ClipHigh(v, ConstrStateHigh[j + 1], ConstrStateValueHigh[j + 1]),
                 ConstrStateLow[j + 1], ConstrStateValueLow[j + 1])
    ELSE IF j >= n_state /\ j - n_state < n_pars
    THEN ClipLow(ClipHigh(v, ConstrParsHigh[j - n_state + 1],
                             ConstrParsValueHigh[j - n_state + 1]),
                 ConstrParsLow[j - n_state + 1], ConstrParsValueLow[j - n_state + 1])
    ELSE v

\* constrainedState(X): the clipped vector, or the IndexError of a read past
\* the end of X
constrainedState(X) ==
    IF \E j \in ConstrReads : j >= Len(X)
    THEN [exc |-> "IndexError", X |-> X]
    ELSE [exc |-> "none", X |-> [j \in 1..Len(X) |-> ConstrEntry(X[j], j - 1)]]

---------------------------------------------------------------------------
\* computeSigmaPoints.

\* target[a:b] += c*vals, with numpy's broadcasting of a one-element vals
Broadcastable(tlen, vlen) == vlen = tlen \/ vlen = 1
AddSlice(row, a, b, vals, c) ==
    [j \in 1..Len(row) |->
        IF j > a /\ j <= a + SliceLen(Len(row), a, b)
        THEN Add(row[j], Mul(c, IF Len(vals) = 1 THEN vals[1] ELSE vals[j - a]))
        ELSE row[j]]

\* the slice updates of one row, in order; stops at the first ValueError
RECURSIVE ApplySlices(_, _, _)
ApplySlices(row, slices, c) ==
    IF slices = <<>> THEN [ok |-> TRUE, row |-> row]
    ELSE LET sl == Head(slices)
         IN  IF ~Broadcastable(SliceLen(Len(row), sl.a, sl.b), Len(sl.vals))
             THEN [ok |-> FALSE, row |-> row]
             ELSE ApplySlices(AddSlice(row, sl.a, sl.b, sl.vals, c), Tail(slices), c)

Slice(a, b, vals) == [a |-> a, b |-> b, vals |-> vals]

\* the slices of Xs[i,:] that receive +sqrtC*row
SlicesPlus(row) ==
    LET nso == n_state_obs  ns == n_state_obs  npa == n_pars
    IN  IF augmented
        THEN << Slice(0, nso, PySlice(row, 0, nso)),
                Slice(ns, ns + npa, PySlice(row, ns, ns + npa)),
                Slice(ns + npa, ns + npa + nso, PySlice(row, ns + npa, ns + npa + nso)),
                Slice(ns + npa + nso, N, PySlice(row, ns + npa + nso, Len(row))) >>
        ELSE << Slice(0, nso, PySlice(row, 0, nso)),
                Slice(ns, ns + npa, PySlice(row, ns, Len(row))) >>

\* the slices of Xs[i+N,:] that receive -sqrtC*row
SlicesMinus(row) ==
    LET nso == n_state_obs  ns == n_state_obs  npa == n_pars
    IN  IF augmented
        THEN SlicesPlus(row)
        ELSE << Slice(0, nso, PySlice(row, 0, nso)),
                Slice(ns, N, PySlice(row, ns, Len(row))) >>

\* the loop over the rows of sqrtP; i is the source's counter (from 1)
RECURSIVE SigmaRows(_, _, _, _, _)
SigmaRows(X, xs0, rows, i, c) ==
    IF rows = <<>> THEN [exc |-> "none", Xs |-> X]
    ELSE IF i > N THEN [exc |-> "IndexError", Xs |-> X]
    ELSE LET row   == Head(rows)
             plus  == ApplySlices(xs0, SlicesPlus(row), c)
             minus == ApplySlices(xs0, SlicesMinus(row), Neg(c))
             cp    == constrainedState(plus.row)
             cm    == constrainedState(minus.row)
         IN  IF ~plus.ok
             THEN [exc |-> "none",
                   Xs |-> [X EXCEPT ![i + 1] = plus.row, ![i + N + 1] = xs0]]
             ELSE IF ~minus.ok
             THEN [exc |-> "none",
                   Xs |-> [X EXCEPT ![i + 1] = plus.row, ![i + N + 1] = minus.row]]
             ELSE IF cp.exc # "none"
             THEN [exc |-> cp.exc,
                   Xs |-> [X EXCEPT ![i + 1] = plus.row, ![i + N + 1] = minus.row]]
             ELSE IF cm.exc # "none"
             THEN [exc |-> cm.exc,
                   Xs |-> [X EXCEPT ![i + 1] = cp.X, ![i + N + 1] = minus.row]]
             ELSE SigmaRows([X EXCEPT ![i + 1] = cp.X, ![i + N + 1] = cm.X],
                            xs0, Tail(rows), i + 1, c)

\* np.hstack/np.vstack of the augmented factor: the blocks must fit
BlocksFit(sP, sQ, sR) ==
    LET M == n_state_obs + n_pars
    IN  /\ Len(sP) = M /\ Len(sQ) = M /\ Len(sR) = n_outputs
        /\ Cols(sP) + M + n_outputs = M + Cols(sQ) + n_outputs
        /\ Cols(sP) + M + n_outputs = M + M + Cols(sR)
BlockDiag(sP, sQ, sR) ==
    LET M == n_state_obs + n_pars
    IN  [i \in 1..(M + M + n_outputs) |->
            IF i <= M THEN sP[i] \o Zeros(M) \o Zeros(n_outputs)
            ELSE IF i <= M + M THEN Zeros(M) \o sQ[i - M] \o Zeros(n_outputs)
            ELSE Zeros(M) \o Zeros(M) \o sR[i - M - M]]

\* computeSigmaPoints(x, pars, sqrtP, sqrtQ, sqrtR): what it returns (Xs), or
\* the exception it lets through (exc)
computeSigmaPoints(x, pars, sP, sQ, sR) ==
    IF Len(x) # n_state_obs THEN [exc |-> "none", Xs |-> <<>>]
    ELSE IF Len(pars) # n_pars THEN [exc |-> "none", Xs |-> <<>>]
    ELSE IF augmented /\ ~BlocksFit(sP, sQ, sR) THEN [exc |-> "ValueError", Xs |-> <<>>]
    ELSE LET xs0 == IF augmented
                    THEN x \o pars \o Zeros(n_state_obs + n_pars) \o Zeros(n_outputs)
                    ELSE x \o pars
             F   == IF augmented THEN BlockDiag(sP, sQ, sR) ELSE sP
             X0  == [i \in 1..(1 + 2 * N) |-> IF i = 1 THEN xs0 ELSE Zeros(N)]
         IN  SigmaRows(X0, xs0, F, 1, RootVal(sqrtC))

---------------------------------------------------------------------------
\* averageProj: np.dot(W_m.T, X_proj)

RECURSIVE WeightedSum(_, _, _, _)
WeightedSum(W, X, j, i) ==
    IF i = 0 THEN Zero ELSE Add(WeightedSum(W, X, j, i - 1), Mul(W[i], X[i][j]))

averageProj(X_proj) ==
    IF Len(X_proj) # 1 + 2 * N
    THEN [exc |-> "ValueError", avg |-> <<>>]
    ELSE [exc |-> "none",
          avg |-> [j \in 1..Cols(X_proj) |-> WeightedSum(W_m, X_proj, j, 1 + 2 * N)]]

---------------------------------------------------------------------------
\* Specification of the weight table.

SigmaIdle == pc = "idle" /\ arg = <<>> /\ Xs = <<>> /\ Xave = <<>> /\ exc = "none"
CholIdle  == cholL = <<>> /\ cholX = <<>> /\ cholRet = <<>>
FilterIdle ==
    /\ model = <<>> /\ measuredOuts = <<>> /\ pool = <<>>
    /\ iStep = 0 /\ xList = <<>> /\ sqrtPList = <<>>
    /\ frame = <<>> /\ trace = <<>> /\ ret = <<>> /\ mode = "none"
    /\ Xhat = <<>> /\ S_hat = <<>> /\ Xsmooth = <<>> /\ Ssmooth = <<>> /\ iSmooth = 0

InitParams ==
    /\ \E ns \in 1..MaxStates, no \in 1..MaxStates, np \in 0..MaxPars,
          ny \in 1..MaxOutputs, aug \in BOOLEAN :
          /\ no <= ns
          /\ Constructed(ns, no, np, ny, aug)
    /\ call = [op |-> "__init__"]
    /\ DefaultConstraints
    /\ SigmaIdle /\ CholIdle /\ FilterIdle

SetUKFparams ==
    \E a \in AlphaInputs, be \in BetaInputs, kk \in KInputs(N) :
        /\ pc = "idle"
        /\ Install(setUKFparams(N, a, be, kk))
        /\ call' = [op |-> "setUKFparams", alpha |-> a, beta |-> be,
                    k |-> IF ~kk.given THEN 3 - N ELSE kk.val]
        /\ UNCHANGED <<dimVars, constrVars, sigmaVars, cholVars, filterVars,
                 smoothVars>>

SetDefaultUKFparams ==
    /\ pc = "idle"
    /\ Install(setDefaultUKFparams(N))
    /\ call' = [op |-> "setDefaultUKFparams"]
    /\ UNCHANGED <<dimVars, constrVars, sigmaVars, cholVars, filterVars,
                 smoothVars>>

NextParams == SetUKFparams \/ SetDefaultUKFparams

SpecParams == InitParams /\ [][NextParams]_vars

\* alpha <= 0 or N + kappa <= 0
InvalidParams(a, kk) == a.sgn <= 0 \/ N + kk <= 0

(***************************************************************************)
(* C6.  A call of setUKFparams with alpha <= 0 or N + kappa <= 0 is        *)
(* rejected with an invalid-parameter error, and the stored parameters are *)
(* never such a pair (no weight table computed from them is installed).    *)
(***************************************************************************)
C6_InvalidRejected ==
    /\ (call.op = "setUKFparams" /\ InvalidParams(call.alpha.val, call.k))
           => raised = "InvalidUkfParameter"
    /\ ~InvalidParams(alpha, k)

(***************************************************************************)
(* C7.  In every state after construction and after any sequence of        *)
(* setUKFparams / setDefaultUKFparams calls the stored lambda, sqrtC, W_m   *)
(* and W_c are those derived from the stored alpha, beta, kappa and N:      *)
(* lambda = alpha^2 (N + kappa) - N, sqrtC = alpha sqrt(N + kappa),         *)
(* W_m[0] = lambda/(N + lambda), W_c[0] = W_m[0] + (1 - alpha^2 + beta),    *)
(* W_m[i] = W_c[i] = 1/(2 (N + lambda)) for i >= 1, both of length 1 + 2N.  *)
(* (Source index 0 is index 1 here; the quotients are IEEE quotients.)      *)
(***************************************************************************)
C7_WeightsDerived ==
    LET a2  == Mul(alpha.sq, One)
        lam == Sub(Mul(a2, R(N + k)), R(N))
        den == Add(R(N), lam)
    IN  /\ lambd = lam
        /\ sqrtC = SqrtC(alpha, N, k)
        /\ DOMAIN W_m = 1..(1 + 2 * N) /\ DOMAIN W_c = 1..(1 + 2 * N)
        /\ W_m[1] = Div(lam, den)
        /\ W_c[1] = Add(W_m[1], Add(Sub(One, a2), R(beta)))
        /\ \A i \in 2..(1 + 2 * N) :
              W_m[i] = Div(One, Mul(R(2), den)) /\ W_c[i] = W_m[i]

---------------------------------------------------------------------------
\* Specification of the sigma-point generator: a configured filter on which
\* computeSigmaPoints and then averageProj are called.

MaxVal == 2     \* largest entry of an enumerated mean vector or factor

\* enumerated vectors of a given length
VecInputs(len) ==
    IF len = 0 THEN {<<>>}
    ELSE {[j \in 1..len |-> R(a + b * j)] : a \in {-1, MaxVal}, b \in {0, 1}}

\* enumerated r x c factors, lower- or upper-triangular, diagonal d
FactorInputs(r, c) ==
    {[i \in 1..r |-> [j \in 1..c |->
        IF i = j THEN R(d)
        ELSE IF (low /\ j < i) \/ (~low /\ j > i) THEN R(i - j) ELSE Zero]] :
     d \in {1, MaxVal}, low \in BOOLEAN}

\* enumerated constraint tables: each of the four groups active on every index
\* or on none, upper thresholds 1 and lower thresholds 0
Configured(sh, sl, ph, pl) ==
    /\ ConstrStateHigh = [i \in 1..n_state_obs |-> sh]
    /\ ConstrStateLow  = [i \in 1..n_state_obs |-> sl]
    /\ ConstrStateValueHigh = [i \in 1..n_state_obs |-> One]
    /\ ConstrStateValueLow  = Zeros(n_state_obs)
    /\ ConstrParsHigh = [i \in 1..n_pars |-> ph]
    /\ ConstrParsLow  = [i \in 1..n_pars |-> pl]
    /\ ConstrParsValueHigh = [i \in 1..n_pars |-> One]
    /\ ConstrParsValueLow  = Zeros(n_pars)

NoActiveConstraint ==
    /\ \A i \in 1..n_state_obs : ~ConstrStateHigh[i] /\ ~ConstrStateLow[i]
    /\ \A i \in 1..n_pars : ~ConstrParsHigh[i] /\ ~ConstrParsLow[i]

\* the parameter calls made on the filter before the generator is used
SigmaParamCalls ==
    { [op |-> "__init__"], [op |-> "setDefaultUKFparams"] }
    \cup { [op |-> "setUKFparams", alpha |-> a, beta |-> DefaultBeta, k |-> kk] :
             a \in { [val |-> RootOfRat(R(1)), kind |-> "float"],
                     [val |-> RootOfRat(R(1)), kind |-> "int"],
                     [val |-> RootOfRat(R(0)), kind |-> "float"] },
             kk \in {1} }

ParamsAfter(c) ==
    IF c.op = "__init__" THEN setUKFparams(N, DefaultAlpha, DefaultBeta, None)
    ELSE IF c.op = "setDefaultUKFparams" THEN setDefaultUKFparams(N)
    ELSE setUKFparams(N, c.alpha, c.beta, Some(c.k))

InitSigma ==
    /\ \E ns \in 1..MaxStates, no \in 1..MaxStates, np \in 0..MaxPars,
          ny \in 1..MaxOutputs :
          /\ no <= ns
          /\ n_state = ns /\ n_state_obs = no /\ n_pars = np /\ n_outputs = ny
          /\ augmented = FALSE /\ N = NumSigma(no, np, ny, FALSE)
    /\ \E c \in SigmaParamCalls :
          LET p == ParamsAfter(c)
          IN  /\ call = c
              /\ alpha = p.alpha /\ beta = p.beta /\ k = p.k /\ lambd = p.lambd
              /\ sqrtC = p.sqrtC /\ W_m = p.W_m /\ W_c = p.W_c /\ raised = p.raised
    /\ \E sh \in BOOLEAN, ph \in BOOLEAN : Configured(sh, FALSE, ph, ph)
    /\ SigmaIdle /\ CholIdle /\ FilterIdle

\* Xs = self.computeSigmaPoints(x, pars, sqrtP)
CallComputeSigmaPoints ==
    /\ pc = "idle"
    /\ RootIsRat(sqrtC)
    /\ \E x \in VecInputs(n_state_obs), pars \in VecInputs(n_pars),
          r \in {N, N + 1}, c \in {N, N + 1} :
          \E sP \in FactorInputs(r, c) :
            LET res == computeSigmaPoints(x, pars, sP, <<>>, <<>>)
            IN  /\ arg' = [x |-> x, pars |-> pars, sqrtP |-> sP]
                /\ Xs' = res.Xs
                /\ exc' = res.exc
                /\ pc' = IF res.exc = "none" THEN "sigma" ELSE "raised"
    /\ UNCHANGED <<dimVars, paramVars, call, raised, constrVars, Xave, cholVars, filterVars,
                 smoothVars>>

\* Xave = self.averageProj(Xs)
CallAverageProj ==
    /\ pc = "sigma"
    /\ LET res == averageProj(Xs)
       IN  /\ Xave' = res.avg
           /\ exc' = res.exc
           /\ pc' = IF res.exc = "none" THEN "avg" ELSE "raised"
    /\ UNCHANGED <<dimVars, paramVars, call, raised, constrVars, arg, Xs, cholVars, filterVars,
                 smoothVars>>

\* the caller goes on to its next call
SigmaReturn ==
    /\ pc \in {"avg", "raised"}
    /\ pc' = "idle" /\ arg' = <<>> /\ Xs' = <<>> /\ Xave' = <<>> /\ exc' = "none"
    /\ UNCHANGED <<dimVars, paramVars, call, raised, constrVars, cholVars, filterVars,
                 smoothVars>>

NextSigma == CallComputeSigmaPoints \/ CallAverageProj \/ SigmaReturn

SpecSigma == InitSigma /\ [][NextSigma]_vars

\* the generator was given a mean [x | p] and an N x N factor
SigmaArgsFit ==
    /\ Len(arg.x) = n_state_obs /\ Len(arg.pars) = n_pars
    /\ Len(arg.sqrtP) = N /\ Cols(arg.sqrtP) = N

(***************************************************************************)
(* C10.  In non-augmented mode with no active constraint, for a mean       *)
(* [x | p] and an N x N factor, computeSigmaPoints returns a matrix of     *)
(* 1 + 2N rows whose row 0 is the mean and whose rows i and i + N          *)
(* (1 <= i <= N) are the mean plus and minus sqrtC * (row i of the         *)
(* factor), and averageProj of that matrix (the W_m-weighted mean) is the  *)
(* mean again.                                                             *)
(***************************************************************************)
C10_SigmaPointsRecenter ==
    (pc # "idle" /\ ~augmented /\ NoActiveConstraint /\ SigmaArgsFit) =>
        LET mean == arg.x \o arg.pars
            c    == RootVal(sqrtC)
        IN  /\ pc \in {"sigma", "avg"}
            /\ Len(Xs) = 1 + 2 * N
            /\ Xs[1] = mean
            /\ \A i \in 1..N : \A j \in 1..N :
                  /\ Xs[i + 1][j]     = Add(mean[j], Mul(c, arg.sqrtP[i][j]))
                  /\ Xs[i + N + 1][j] = Sub(mean[j], Mul(c, arg.sqrtP[i][j]))
            /\ pc = "avg" => Xave = mean

---------------------------------------------------------------------------
\* cholUpdate and computeS.

\* np.sign, np.abs
SignOf(a) == IF IsNaN(a) THEN NaN ELSE R(Sgn(a[1]))
AbsOf(a)  == <<Abs(a[1]), a[2]>>

Column(X, j)        == [m \in 1..Len(X) |-> X[m][j]]
SetColumn(X, j, x)  == [m \in 1..Len(X) |-> [X[m] EXCEPT ![j] = x[m]]]

\* L[k,k]**2 + signs[0]*x[k]**2 (the row k, counted from 1 here)
RrArg(L, x, kr, sg) == Add(Mul(L[kr][kr], L[kr][kr]), Mul(sg, Mul(x[kr], x[kr])))

\* rr = 0.0 if rr_arg < 0 else np.sqrt(rr_arg)
\* (RrOfSqrt: np.sqrt alone, which gives nan below zero)
RrOfSqrt(rr_arg) == IF Lt(rr_arg, Zero) THEN NaN ELSE Sqrt(rr_arg)
Rr(rr_arg) == IF Lt(rr_arg, Zero) THEN Zero ELSE Sqrt(rr_arg)

\* L[k,k] = rr;  L[k,k+1:] = (L[k,k+1:] + signs[0]*s*x[k+1:])/c
CholNewRow(Lk, x, kr, sg, rr, c, s) ==
    [m \in 1..Len(Lk) |->
        IF m < kr THEN Lk[m]
        ELSE IF m = kr THEN rr
        ELSE Div(Add(Lk[m], Mul(sg, Mul(s, x[m]))), c)]

\* x[k+1:] = c*x[k+1:] - s*L[k,k+1:]
CholNewX(x, kr, c, s, Lk) ==
    [m \in 1..Len(x) |-> IF m <= kr THEN x[m] ELSE Sub(Mul(c, x[m]), Mul(s, Lk[m]))]

CholRowStore(L, x, kr, c, s, Lk) ==
    [L |-> [L EXCEPT ![kr] = Lk], x |-> CholNewX(x, kr, c, s, Lk)]

\* one pass of the inner loop of cholUpdate with c = rr/L[k,k], s = x[k]/L[k,k]
CholRowScaled(L, x, kr, sg, rr, c, s) ==
    CholRowStore(L, x, kr, c, s, CholNewRow(L[kr], x, kr, sg, rr, c, s))

CholRowRooted(L, x, kr, sg, rr) ==
    CholRowScaled(L, x, kr, sg, rr, Div(rr, L[kr][kr]), Div(x[kr], L[kr][kr]))

CholRow(L, x, kr, sg) == CholRowRooted(L, x, kr, sg, Rr(RrArg(L, x, kr, sg)))

\* for k in range(row); exact is cleared, and the loop left, at a square root
\* that is not a rational
RECURSIVE CholRows(_, _, _, _, _)
CholRowsNext(r, kr, sg) == CholRows(r.L, r.x, kr + 1, sg, TRUE)
CholRows(L, x, kr, sg, exact) ==
    IF kr > Len(x) \/ ~exact THEN [L |-> L, x |-> x, exact |-> exact]
    ELSE IF ~ExactSqrt(RrArg(L, x, kr, sg)) THEN [L |-> L, x |-> x, exact |-> FALSE]
    ELSE CholRowsNext(CholRow(L, x, kr, sg), kr, sg)

\* for j in range(col): x = X[0:,j] is a view, so X receives what is written
\* to x
RECURSIVE CholColumns(_, _, _, _, _)
CholColumnsNext(r, X, j, sg) ==
    CholColumns(r.L, SetColumn(X, j, r.x), j + 1, sg, r.exact)
CholColumns(L, X, j, sg, exact) ==
    IF j > Cols(X) THEN [ret |-> L, X |-> X, exact |-> exact]
    ELSE CholColumnsNext(CholRows(L, Column(X, j), 1, sg, exact), X, j, sg)

\* L.copy(): an array of the same entries that shares nothing with L
\* (SameArray: the name L left bound to the caller's array)
SameArray(L) == [array |-> L, shared |-> TRUE]
copy(L)      == [array |-> L, shared |-> FALSE]

CholReturned(L, work, r) ==
    [ret |-> r.ret, L |-> IF work.shared THEN r.ret ELSE L, X |-> r.X, exact |-> r.exact]

CholUpdateOn(L, X, W, work) ==
    CholReturned(L, work, CholColumns(work.array, X, 1, SignOf(W[1]), TRUE))

\* cholUpdate(L, X, W) for an X with as many rows as L (every call of the
\* file): ret is the array returned, L and X the caller's arrays after the
\* call, exact tells that every square root taken was a rational
cholUpdate(L, X, W) == CholUpdateOn(L, X, W, copy(L))

\* sum over the sigma points 2..i of |W_c|*(X_proj - Xa)[a]*(X_proj - Xa)[b]
RECURSIVE SumErrors(_, _, _, _, _)
SumErrors(X_proj, Xa, a, b, i) ==
    IF i < 2 THEN Zero
    ELSE Add(SumErrors(X_proj, Xa, a, b, i - 1),
             Mul(AbsOf(W_c[i]),
                 Mul(Sub(X_proj[i][a], Xa[a]), Sub(X_proj[i][b], Xa[b]))))

\* the entry (a, b) of M*M.T restricted to the first m columns of M
RECURSIVE RowDot(_, _, _, _)
RowDot(M, a, b, m) ==
    IF m = 0 THEN Zero ELSE Add(RowDot(M, a, b, m - 1), Mul(M[a][m], M[b][m]))

\* A*A.T for the A of computeS: the errors of the sigma points 1..2N, each
\* scaled by sqrt(|W_c[i]|), side by side with sqrtQ (which has N rows)
GramS(X_proj, Xa, sqrtQ) ==
    [a \in 1..Len(Xa) |-> [b \in 1..Len(Xa) |->
        Add(SumErrors(X_proj, Xa, a, b, Len(X_proj)), RowDot(sqrtQ, a, b, Cols(sqrtQ)))]]

\* the entry (a, b) of M.T*M restricted to the first m rows of M
RECURSIVE ColDot(_, _, _, _)
ColDot(M, a, b, m) ==
    IF m = 0 THEN Zero ELSE Add(ColDot(M, a, b, m - 1), Mul(M[m][a], M[m][b]))

\* The R of np.linalg.qr(A.T): the upper-triangular matrix with R.T*R = A*A.T,
\* computed row by row for a positive-definite A*A.T; the sign of each row is
\* LAPACK's (flip: the rows it returns negated).
RECURSIVE QrRows(_, _, _, _)
QrRow(G, Rm, i, d) ==
    [j \in 1..Len(G) |->
        IF j < i THEN Zero
        ELSE IF j = i THEN d
        ELSE Div(Sub(G[i][j], ColDot(Rm, i, j, i - 1)), d)]
QrPivot(G, Rm, i, piv) ==
    IF ~(Gt(piv, Zero) /\ IsFinite(piv) /\ ExactSqrt(piv))
    THEN [R |-> Rm, exact |-> FALSE]
    ELSE QrRows(G, [Rm EXCEPT ![i] = QrRow(G, Rm, i, Sqrt(piv))], i + 1, TRUE)
QrRows(G, Rm, i, exact) ==
    IF i > Len(G) \/ ~exact THEN [R |-> Rm, exact |-> exact]
    ELSE QrPivot(G, Rm, i, Sub(G[i][i], ColDot(Rm, i, i, i - 1)))

QrSigned(r, flip) ==
    [R |-> [i \in 1..Len(r.R) |->
              [j \in 1..Len(r.R) |-> IF i \in flip THEN Neg(r.R[i][j]) ELSE r.R[i][j]]],
     exact |-> r.exact]
qrR(G, flip) == QrSigned(QrRows(G, ZeroMatrix(Len(G), Len(G)), 1, TRUE), flip)

\* x = signs[0]*weights[0]*(X_proj_obs[0,] - Xave_obs), as a column; d0 is
\* the difference, w0 = |W_c[0]|
CentreError(d0, w0) ==
    [ok |-> ExactSqrt(w0) \/ (IsFinite(w0) /\ \A a \in 1..Len(d0) : d0[a] = Zero),
     x  |-> [a \in 1..Len(d0) |->
               << IF IsFinite(w0) /\ d0[a] = Zero THEN Zero
                  ELSE Mul(SignOf(W_c[1]), Mul(Sqrt(w0), d0[a])) >>]]

ComputeSUpdate(q, e) ==
    IF ~(q.exact /\ e.ok) THEN [ret |-> <<>>, exact |-> FALSE]
    ELSE cholUpdate(q.R, e.x, W_c)

\* computeS(X_proj, Xave, sqrtQ): the factor returned (ret); exact tells that
\* the numbers involved are rationals
computeS(X_proj, Xa, sqrtQ, flip) ==
    ComputeSUpdate(qrR(GramS(X_proj, Xa, sqrtQ), flip),
                   CentreError([a \in 1..Len(Xa) |-> Sub(X_proj[1][a], Xa[a])],
                               AbsOf(W_c[1])))

---------------------------------------------------------------------------
\* Specification of the factor computations: computeS on the sigma points of
\* a mean and a factor, then the correction of line 711; and cholUpdate
\* called on its own.  Only the calls whose square roots are rationals are
\* enumerated.

\* enumerated n x n factors: diagonal 3 or 5, upper- or lower-triangular
CholFactorInputs(n) ==
    {[i \in 1..n |-> [j \in 1..n |->
        IF i = j THEN R(d)
        ELSE IF (low /\ j < i) \/ (~low /\ j > i) THEN R(o) ELSE Zero]] :
     d \in {3, 5}, o \in {0, 4}, low \in BOOLEAN}

\* enumerated process-noise factors: none, or 4 on the diagonal
NoiseInputs(n) ==
    {[i \in 1..n |-> [j \in 1..n |-> IF i = j THEN R(d) ELSE Zero]] : d \in {0, 4}}

\* enumerated n x c update matrices
UpdateInputs(n, c) ==
    {[m \in 1..n |-> [j \in 1..c |-> IF first /\ m > 1 THEN Zero ELSE R(v)]] :
     v \in {0, 3, 4}, first \in BOOLEAN}

\* -1*np.ones(n)
MinusOnes(n) == [j \in 1..n |-> R(-1)]

InitChol ==
    /\ \E ns \in 1..MaxStates, no \in 1..MaxStates, np \in 0..MaxPars,
          ny \in 1..MaxOutputs :
          /\ no <= ns
          /\ n_state = ns /\ n_state_obs = no /\ n_pars = np /\ n_outputs = ny
          /\ augmented = FALSE /\ N = NumSigma(no, np, ny, FALSE)
    /\ \E c \in { [op |-> "__init__"], [op |-> "setDefaultUKFparams"] } :
          LET p == ParamsAfter(c)
          IN  /\ call = c
              /\ alpha = p.alpha /\ beta = p.beta /\ k = p.k /\ lambd = p.lambd
              /\ sqrtC = p.sqrtC /\ W_m = p.W_m /\ W_c = p.W_c /\ raised = p.raised
    /\ DefaultConstraints
    /\ SigmaIdle /\ CholIdle /\ FilterIdle

\* the caller receives the result of a cholUpdate call
CholCallDone(r, a, label) ==
    /\ r.exact
    /\ arg' = a
    /\ cholL' = r.L /\ cholX' = r.X /\ cholRet' = r.ret
    /\ pc' = label

ComputeSDone(sig, avg, res, a) ==
    /\ res.exact
    /\ arg' = a
    /\ Xs' = sig /\ Xave' = avg
    /\ cholRet' = res.ret
    /\ pc' = "Snew"

ComputeSOn(sig, avg, Q, flip, a) ==
    ComputeSDone(sig, avg, computeS(sig, avg, Q, flip), a)

ComputeSFrom(sig, Q, flip, a) == ComputeSOn(sig, averageProj(sig).avg, Q, flip, a)

\* Snew = self.computeS(X_proj, Xave, sqrtQ), on sigma points that the
\* simulation left where they were
CallComputeS ==
    /\ pc = "idle"
    /\ RootIsRat(sqrtC)
    /\ \E mean \in VecInputs(N), S \in CholFactorInputs(N), Q \in NoiseInputs(N),
          flip \in SUBSET (1..N) :
          ComputeSFrom(computeSigmaPoints(PySlice(mean, 0, n_state_obs),
                                          PySlice(mean, n_state_obs, N), S, <<>>, <<>>).Xs,
                       Q, flip, [op |-> "computeS", sqrtP |-> S, sqrtQ |-> Q])
    /\ UNCHANGED <<dimVars, paramVars, call, raised, constrVars, exc, cholL, cholX, filterVars,
                 smoothVars>>

\* S_corr = self.cholUpdate(Snew, U, -1*np.ones(self.n_state))
CallCorrect ==
    /\ pc = "Snew"
    /\ \E U \in UpdateInputs(N, n_outputs) :
          CholCallDone(cholUpdate(cholRet, U, MinusOnes(n_state)),
                       [op |-> "cholUpdate", L |-> cholRet, X |-> U, sign |-> R(-1),
                        W |-> MinusOnes(n_state)],
                       "S_corr")
    /\ UNCHANGED <<dimVars, paramVars, call, raised, constrVars, Xs, Xave, exc, filterVars,
                 smoothVars>>

\* a call of cholUpdate(L, X, W) with W the weights W_c or -1*np.ones(n)
CallCholUpdate ==
    /\ pc = "idle"
    /\ \E L \in CholFactorInputs(N), c \in 1..n_outputs, W \in {W_c, MinusOnes(N)} :
          \E X \in UpdateInputs(N, c) :
            CholCallDone(cholUpdate(L, X, W),
                         [op |-> "cholUpdate", L |-> L, X |-> X, sign |-> SignOf(W[1]),
                          W |-> W],
                         "updated")
    /\ UNCHANGED <<dimVars, paramVars, call, raised, constrVars, Xs, Xave, exc, filterVars,
                 smoothVars>>

CholReturn ==
    /\ pc \in {"Snew", "S_corr", "updated"}
    /\ pc' = "idle" /\ arg' = <<>> /\ Xs' = <<>> /\ Xave' = <<>>
    /\ cholL' = <<>> /\ cholX' = <<>> /\ cholRet' = <<>>
    /\ UNCHANGED <<dimVars, paramVars, call, raised, constrVars, exc, filterVars,
                 smoothVars>>

NextChol == CallComputeS \/ CallCorrect \/ CallCholUpdate \/ CholReturn

SpecChol == InitChol /\ [][NextChol]_vars

IsLowerTriangular(M) == \A i \in 1..Len(M) : \A j \in 1..Len(M[i]) : j > i => M[i][j] = Zero
DiagNonNegative(M)   == \A i \in 1..Len(M) : ~Lt(M[i][i], Zero) /\ ~IsNaN(M[i][i])

(***************************************************************************)
(* C9.  Every factor returned by computeS, and every factor S_k that       *)
(* ukf_step derives from it with the correction cholUpdate(Snew, U, -1),   *)
(* is lower-triangular with a non-negative diagonal.                       *)
(***************************************************************************)
C9_FactorLowerTriangular ==
    pc \in {"Snew", "S_corr"} => IsLowerTriangular(cholRet) /\ DiagNonNegative(cholRet)

---------------------------------------------------------------------------
\* The model, the simulator pool and the forward pass: sigmaPointProj,
\* ukf_step and filter.
\*
\* The model (an FMU) and the pool (FmuUtils.FmuPool) are not part of the
\* file; they follow their contract: the model stores a full state and a
\* parameter vector, written by SetState, SetStateSelected and
\* SetParametersSelected; pool.Run(tasks, start, stop) simulates every task
\* on a copy of the model and returns the results in the order of the tasks,
\* or raises if a task fails or the batch is cancelled.

MaxK    == 3     \* largest number of rows of a measurement series
MaxPool == 2     \* largest number of workers of the pool

\* GetCovMatrixStatePars(): a lower-triangular factor; GetCovMatrixOutputs()
ModelCovStatePars(n) ==
    [i \in 1..n |-> [j \in 1..n |-> IF j <= i THEN One ELSE Zero]]
ModelCovOutputs(n) == [i \in 1..n |-> [j \in 1..n |-> IF j = i THEN One ELSE Zero]]

\* GetStateObservedValues(), GetParametersValues()
GetStateObservedValues == PySlice(model.state, 0, n_state_obs)
GetParametersValues    == model.pars

\* GetMeasuredOutputDataSeries(): row r holds the time r - 1 and the outputs
MeasuredSeries(rows) ==
    [r \in 1..rows |-> [t |-> r - 1, z |-> [j \in 1..n_outputs |-> R(r % 2)]]]

\* The simulation of one task over [start, stop] by a deterministic simulator:
\* every observed state drifts by the first parameter (by 1 when no parameter
\* is estimated) per unit of time, the parameters stay, the states that are
\* not observed are the model's, every output is the first observed state.
\* The interval [t, t + 1e-8] of the output projection has no length.
Simulate(task, start, stop, eps, mstate) ==
    [ALL_STATE  |-> [j \in 1..Len(mstate) |->
                       IF j <= Len(task.state)
                       THEN Add(task.state[j],
                                Mul(R(IF eps THEN 0 ELSE stop - start),
                                    IF Len(task.parameters) > 0
                                    THEN task.parameters[1] ELSE One))
                       ELSE mstate[j]],
     PARAMS     |-> task.parameters]

SimObserved(full)  == PySlice(full.ALL_STATE, 0, n_state_obs)
SimOutputs(full)   == [j \in 1..n_outputs |-> full.ALL_STATE[1]]
SimAugmented(full) == SimObserved(full) \o full.PARAMS
SimFull(full)      == full.ALL_STATE

\* temp = {"state": x, "parameters": pars}
TaskOf(sigma) ==
    [state      |-> PySlice(sigma, 0, n_state_obs),
     parameters |-> PySlice(sigma, n_state_obs, n_state_obs + n_pars)]

IdlePool(size) ==
    [size |-> size, tasks |-> <<>>, start |-> 0, stop |-> 0, eps |-> FALSE,
     mstate |-> <<>>, done |-> {}, status |-> "idle", failed |-> 0, reordered |-> FALSE]

\* self.pool.Run(values, start = ..., stop = ...): the batch is submitted;
\* every task runs on a copy of the model as it is now (mstate)
Submit(XsM, start, stop, eps, mstate) ==
    [size |-> pool.size,
     tasks |-> [r \in 1..Len(XsM) |-> TaskOf(XsM[r])],
     start |-> start, stop |-> stop, eps |-> eps, mstate |-> mstate,
     done |-> {}, status |-> IF Len(XsM) = 0 THEN "done" ELSE "running",
     failed |-> 0, reordered |-> FALSE]

\* the tasks a worker is busy with: the first pool.size unfinished ones
PoolWindow ==
    {t \in 1..Len(pool.tasks) :
        /\ t \notin pool.done
        /\ Cardinality({u \in 1..(t - 1) : u \notin pool.done}) < pool.size}

\* what pool.Run gives back to sigmaPointProj: the results in task order
PoolResults(p) ==
    [r \in 1..Len(p.tasks) |-> Simulate(p.tasks[r], p.start, p.stop, p.eps, p.mstate)]
PoolException(p) ==
    IF p.status = "failed" THEN "SimulationFailure"
    ELSE IF p.status = "cancelled" THEN "Cancelled" ELSE "none"

\* the result that the loop "for r in poolResults" writes to row i of the
\* projected matrices (i counts the results, one increment per result)
\* (NextResultOfRow: a loop that would skip the first result)
NextResultOfRow(i) == i + 1
ResultOfRow(i)     == i

\* the projected matrix of one field, rows holding that field of every
\* result: the rows without a result stay zero
AssembleRows(rows, width) ==
    [i \in 1..(1 + 2 * N) |->
        IF ResultOfRow(i) \in 1..Len(rows) THEN rows[ResultOfRow(i)] ELSE Zeros(width)]

\* what the call of pool.Run inside sigmaPointProj lets through: there is no
\* handler around it
\* (NoException: a handler that would swallow every exception)
NoException(e)          == "none"
sigmaPointProjRaises(e) == e

\* sigmaPointProj, from the return of pool.Run on
sigmaPointProj(p) ==
    [exc        |-> sigmaPointProjRaises(PoolException(p)),
     X_proj     |-> AssembleRows([r \in 1..Len(p.tasks) |-> SimAugmented(PoolResults(p)[r])],
                                 n_state_obs + n_pars),
     Z_proj     |-> AssembleRows([r \in 1..Len(p.tasks) |-> SimOutputs(PoolResults(p)[r])],
                                 n_outputs),
     Xfull_proj |-> AssembleRows([r \in 1..Len(p.tasks) |-> SimFull(PoolResults(p)[r])],
                                 n_state)]

\* computeCovXZ for one output: sum of W_c[i]*(X_p - Xa)[a]*(Z_p - Za)
RECURSIVE SumCross(_, _, _, _, _, _)
SumCross(X_p, Xa, Z_p, Za, a, i) ==
    IF i = 0 THEN Zero
    ELSE Add(SumCross(X_p, Xa, Z_p, Za, a, i - 1),
             Mul(W_c[i], Mul(Sub(X_p[i][a], Xa[a]), Sub(Z_p[i][1], Za[1]))))
computeCovXZ(X_p, Xa, Z_p, Za) ==
    [a \in 1..Len(Xa) |-> SumCross(X_p, Xa, Z_p, Za, a, Len(X_p))]

SquareClamped(a) == IF Lt(a, Zero) THEN Zero ELSE a

\* The square of the 1 x 1 factor computeSy returns: the R of the QR
\* factorization squared is A*A.T, and cholUpdate adds W_c[0]*(z0 - Zave)^2
\* to it, a negative sum being clamped to zero.
SySquared(Z_proj, Za, sqrtR) ==
    SquareClamped(
        Add(Add(SumErrors(Z_proj, Za, 1, 1, Len(Z_proj)), Mul(sqrtR[1][1], sqrtR[1][1])),
            Mul(SignOf(W_c[1]),
                Mul(AbsOf(W_c[1]),
                    Mul(Sub(Z_proj[1][1], Za[1]), Sub(Z_proj[1][1], Za[1]))))))

\* K of lines 686-688 for one output: CovXZ/Sy^2, the least-squares solution
\* being zero when Sy is zero
KalmanGain(cov, sy2) ==
    [a \in 1..Len(cov) |-> IF sy2 = Zero THEN Zero ELSE Div(cov[a], sy2)]

\* X_corr = Xave + np.dot(K, z.reshape(n_outputs,1) - Zave.T).T
StateCorrection(Xa, K, z, Za) ==
    [a \in 1..Len(Xa) |-> Add(Xa[a], Mul(K[a], Sub(z[1], Za[1])))]

\* The factors that np.linalg.qr and cholUpdate leave in computeS and in the
\* correction of line 711 are not rationals in general; the forward pass
\* takes any of these upper-triangular factors for them.
FactorOutputs(n) ==
    {[i \in 1..n |-> [j \in 1..n |->
        IF j = i THEN One ELSE IF j > i THEN R(o) ELSE Zero]] : o \in {0, 1}}

---------------------------------------------------------------------------
\* Specification of the forward pass: a filter built on a model with one
\* observed state and one output, on which filter() or ukf_step() is called.

\* the locals of ukf_step
EmptyFrame ==
    [x |-> <<>>, sqrtP |-> <<>>, t_old |-> 0, t |-> 0, z |-> <<>>, fit |-> TRUE,
     mstate |-> <<>>, Xs |-> <<>>, X_proj |-> <<>>, Z0_proj |-> <<>>, Xfull_proj |-> <<>>,
     reordered |-> FALSE,
     Xave |-> <<>>, Xfull_ave |-> <<>>, Snew |-> <<>>, Xs2 |-> <<>>,
     Z_proj |-> <<>>, Zave |-> <<>>, Sy2 |-> Zero, X_corr |-> <<>>, S_corr |-> <<>>]

Pending      == [kind |-> "pending", val |-> <<>>]
Event(ev, v) == [ev |-> ev, i |-> iStep, v |-> v]

filterFrame == <<dimVars, paramVars, call, raised, constrVars, arg, Xs, Xave,
                 cholVars, measuredOuts, smoothVars>>

InitFilter ==
    /\ \E ns \in 1..MaxStates, np \in 0..MaxPars :
          /\ n_state = ns /\ n_state_obs = 1 /\ n_pars = np /\ n_outputs = 1
          /\ augmented = FALSE /\ N = NumSigma(1, np, 1, FALSE)
    /\ call = [op |-> "__init__"]
    /\ LET p == ParamsAfter([op |-> "__init__"])
       IN  /\ alpha = p.alpha /\ beta = p.beta /\ k = p.k /\ lambd = p.lambd
           /\ sqrtC = p.sqrtC /\ W_m = p.W_m /\ W_c = p.W_c /\ raised = p.raised
    /\ \E c \in {"none", "state", "pars"} :
          Configured(c = "state", FALSE, c = "pars", FALSE)
    /\ SigmaIdle /\ CholIdle
    /\ model = [state |-> [j \in 1..n_state |-> One],
                pars  |-> [j \in 1..n_pars |-> R(MaxVal)]]
    /\ \E rows \in 1..MaxK : measuredOuts = MeasuredSeries(rows)
    /\ \E size \in 1..MaxPool : pool = IdlePool(size)
    /\ iStep = 0 /\ xList = <<>> /\ sqrtPList = <<>>
    /\ frame = EmptyFrame /\ trace = <<>> /\ ret = Pending /\ mode = "none"
    /\ Xhat = <<>> /\ S_hat = <<>> /\ Xsmooth = <<>> /\ Ssmooth = <<>> /\ iSmooth = 0

\* filter, lines 725-734
CallFilter ==
    /\ pc = "idle" /\ mode = "none"
    /\ mode' = "filter"
    /\ xList' = << GetStateObservedValues \o GetParametersValues >>
    /\ sqrtPList' = << ModelCovStatePars(N) >>
    /\ iStep' = 1
    /\ pc' = "loop"
    /\ UNCHANGED <<filterFrame, exc, model, pool, frame, trace, ret>>

\* ukf_step up to the first call of pool.Run: sig is what computeSigmaPoints
\* gave (line 607)
BeginStep(xin, sP, t_old, t, z, fit, sig) ==
    /\ frame' = [EmptyFrame EXCEPT !.x = xin, !.sqrtP = sP, !.t_old = t_old,
                                   !.t = t, !.z = z, !.fit = fit,
                                   !.mstate = model.state, !.Xs = sig.Xs]
    /\ IF sig.exc # "none"
       THEN /\ pc' = "raised" /\ exc' = sig.exc
            /\ trace' = Append(trace, Event("ukf_step", <<xin, sP, t_old, t, z>>))
            /\ pool' = pool
       ELSE /\ pc' = "batch1" /\ exc' = exc
            /\ trace' = trace \o << Event("ukf_step", <<xin, sP, t_old, t, z>>),
                                    Event("Run", <<t_old, t, FALSE>>) >>
            /\ pool' = Submit(sig.Xs, t_old, t, FALSE, model.state)

ukf_step_begin(xin, sP, t_old, t, z, fit) ==
    BeginStep(xin, sP, t_old, t, z, fit,
              computeSigmaPoints(PySlice(xin, 0, n_state_obs),
                                 PySlice(xin, n_state_obs, Len(xin)), sP,
                                 ModelCovStatePars(N), ModelCovOutputs(n_outputs)))

\* for i in range(1, Ntimes): the call of ukf_step of line 740
LoopStep ==
    /\ pc = "loop" /\ iStep < Len(measuredOuts)
    /\ ukf_step_begin(xList[iStep], sqrtPList[iStep], measuredOuts[iStep].t,
                      measuredOuts[iStep + 1].t, measuredOuts[iStep + 1].z, TRUE)
    /\ UNCHANGED <<filterFrame, model, iStep, xList, sqrtPList, ret, mode>>

\* the loop is over: return
LoopEnd ==
    /\ pc = "loop" /\ iStep >= Len(measuredOuts)
    /\ pc' = "done"
    /\ ret' = [kind |-> "None", val |-> <<>>]
    /\ UNCHANGED <<filterFrame, exc, model, pool, iStep, xList, sqrtPList, frame,
                   trace, mode>>

\* the arguments of a call of ukf_step by a user: the model's mean and factor,
\* a mean with one entry too many, or a factor with one column too many
StepX(kind) ==
    GetStateObservedValues \o GetParametersValues
        \o (IF kind = "long_x" THEN <<One>> ELSE <<>>)
StepP(kind) ==
    IF kind = "wide_P"
    THEN [i \in 1..N |-> ModelCovStatePars(N)[i] \o <<Zero>>]
    ELSE ModelCovStatePars(N)

CallUkfStep ==
    /\ pc = "idle" /\ mode = "none"
    /\ mode' = "ukf_step"
    /\ \E kind \in {"fit", "long_x", "wide_P"} :
          ukf_step_begin(StepX(kind), StepP(kind), 0, 1, <<Zero>>, kind = "fit")
    /\ UNCHANGED <<filterFrame, model, iStep, xList, sqrtPList, ret>>

\* a worker of the pool finishes its task
PoolFinish ==
    /\ pc \in {"batch1", "batch2"} /\ pool.status = "running"
    /\ \E t \in PoolWindow :
          pool' = [pool EXCEPT
                     !.done = @ \cup {t},
                     !.status = IF pool.done \cup {t} = 1..Len(pool.tasks)
                                THEN "done" ELSE "running",
                     !.reordered = @ \/ \E u \in 1..(t - 1) : u \notin pool.done]
    /\ UNCHANGED <<filterFrame, pc, exc, model, iStep, xList, sqrtPList, frame,
                   trace, ret, mode>>

\* a task fails with a simulator error: the batch is over, its partial results
\* are dropped
PoolFail ==
    /\ pc \in {"batch1", "batch2"} /\ pool.status = "running"
    /\ \E t \in PoolWindow :
          pool' = [pool EXCEPT !.status = "failed", !.failed = t, !.done = {},
                               !.reordered = FALSE]
    /\ UNCHANGED <<filterFrame, pc, exc, model, iStep, xList, sqrtPList, frame,
                   trace, ret, mode>>

\* the batch is cancelled at the barrier
PoolCancel ==
    /\ pc \in {"batch1", "batch2"} /\ pool.status = "running"
    /\ pool' = [pool EXCEPT !.status = "cancelled", !.done = {}, !.reordered = FALSE]
    /\ UNCHANGED <<filterFrame, pc, exc, model, iStep, xList, sqrtPList, frame,
                   trace, ret, mode>>

PoolOver == pool.status \in {"done", "failed", "cancelled"}

\* the state of the model that the tasks of the second batch run on: SetState
\* (line 645) comes before the second call of sigmaPointProj (line 653)
\* (StateNotYetWritten: the two lines in the other order)
StateNotYetWritten(before, written) == before
StateAtSecondRun(before, written)   == written

\* lines 642-653: the sigma points are redrawn, the averaged full state is
\* written to the model, the second batch is submitted
PredictSigma(proj, Xa, Xfa, Snew, sig) ==
    /\ frame' = [frame EXCEPT !.X_proj = proj.X_proj, !.Z0_proj = proj.Z_proj,
                              !.Xfull_proj = proj.Xfull_proj,
                              !.reordered = pool.reordered,
                              !.Xave = Xa, !.Xfull_ave = Xfa, !.Snew = Snew,
                              !.Xs2 = sig.Xs]
    /\ IF sig.exc # "none"
       THEN /\ pc' = "raised" /\ exc' = sig.exc
            /\ UNCHANGED <<model, pool, trace>>
       ELSE /\ pc' = "batch2" /\ exc' = exc
            /\ model' = [model EXCEPT !.state = Xfa]
            /\ trace' = trace \o << Event("SetState", Xfa),
                                    Event("Run", <<frame.t, frame.t, TRUE>>) >>
            /\ pool' = Submit(sig.Xs, frame.t, frame.t, TRUE,
                            StateAtSecondRun(model.state, Xfa))

PredictAvg(proj, Xa, Xfa, Snew) ==
    PredictSigma(proj, Xa, Xfa, Snew,
                 computeSigmaPoints(PySlice(Xa, 0, n_state_obs),
                                    PySlice(Xa, n_state_obs, Len(Xa)), Snew,
                                    ModelCovStatePars(N), ModelCovOutputs(n_outputs)))

\* the model when the exception of pool.Run (line 319) leaves ukf_step at
\* line 614: no handler is on the way and SetState (line 645) is not reached
\* (ModelCleared: a handler that would reset the model's state)
ModelCleared(stored) ==
    [state |-> Zeros(Len(stored.state)), pars |-> stored.pars]
ModelAfterFailedRun(stored) == stored

\* lines 614-633: the projection is assembled and averaged, Snew computed
PredictOn(proj) ==
    IF proj.exc # "none"
    THEN /\ pc' = "raised" /\ exc' = proj.exc
         /\ model' = ModelAfterFailedRun(model)
         /\ UNCHANGED <<frame, pool, trace>>
    ELSE \E Snew \in FactorOutputs(N) :
            PredictAvg(proj, averageProj(proj.X_proj).avg,
                       averageProj(proj.Xfull_proj).avg, Snew)

\* ukf_step from the return of the first pool.Run to the second one
Predict ==
    /\ pc = "batch1" /\ PoolOver
    /\ PredictOn(sigmaPointProj(pool))
    /\ UNCHANGED <<filterFrame, iStep, xList, sqrtPList, ret, mode>>

\* lines 711-718 and, in filter, lines 742-743: the corrected state is written
\* to the model and returned, and filter appends it to its lists
StepReturn(proj, Za, sy2, X_corr, S_corr) ==
    /\ frame' = [frame EXCEPT !.Z_proj = proj.Z_proj, !.Zave = Za, !.Sy2 = sy2,
                              !.X_corr = X_corr, !.S_corr = S_corr]
    /\ model' = [state |-> [j \in 1..Len(model.state) |->
                              IF j <= n_state_obs THEN X_corr[j] ELSE model.state[j]],
                 pars  |-> PySlice(X_corr, n_state_obs, Len(X_corr))]
    /\ trace' = trace \o
          << Event("SetStateSelected", PySlice(X_corr, 0, n_state_obs)),
             Event("SetParametersSelected", PySlice(X_corr, n_state_obs, Len(X_corr))),
             Event("return", <<X_corr, S_corr, Za, sy2>>) >>
    /\ pool' = IdlePool(pool.size)
    /\ exc' = exc
    /\ IF mode = "filter"
       THEN /\ xList' = Append(xList, X_corr)
            /\ sqrtPList' = Append(sqrtPList, S_corr)
            /\ iStep' = iStep + 1
            /\ pc' = "loop"
            /\ ret' = ret
       ELSE /\ pc' = "done"
            /\ ret' = [kind |-> "tuple", val |-> <<X_corr, S_corr, Za, sy2>>]
            /\ UNCHANGED <<xList, sqrtPList, iStep>>

\* line 702: the corrected state is clipped
CorrectClip(proj, Za, sy2, cs) ==
    IF cs.exc # "none"
    THEN /\ pc' = "raised" /\ exc' = cs.exc
         /\ frame' = [frame EXCEPT !.Z_proj = proj.Z_proj, !.Zave = Za, !.Sy2 = sy2]
         /\ UNCHANGED <<model, pool, trace, xList, sqrtPList, iStep, ret>>
    ELSE \E S_corr \in FactorOutputs(N) : StepReturn(proj, Za, sy2, cs.X, S_corr)

\* lines 686-699: the gain and the corrected state
CorrectGain(proj, Za, sy2, cov) ==
    CorrectClip(proj, Za, sy2,
                constrainedState(StateCorrection(frame.Xave, KalmanGain(cov, sy2),
                                                 frame.z, Za)))

\* lines 662-676: the output mean, its factor and the cross covariance
CorrectZ(proj, Za) ==
    CorrectGain(proj, Za,
                SySquared(proj.Z_proj, Za, ModelCovOutputs(n_outputs)),
                computeCovXZ(proj.X_proj, frame.Xave, proj.Z_proj, Za))

CorrectOn(proj) ==
    IF proj.exc # "none"
    THEN /\ pc' = "raised" /\ exc' = proj.exc
         /\ UNCHANGED <<frame, model, pool, trace, xList, sqrtPList, iStep, ret>>
    ELSE CorrectZ(proj, averageProj(proj.Z_proj).avg)

\* ukf_step from the return of the second pool.Run to its return
Correct ==
    /\ pc = "batch2" /\ PoolOver
    /\ CorrectOn(sigmaPointProj(pool))
    /\ UNCHANGED <<filterFrame, mode>>

NextFilter ==
    \/ CallFilter \/ LoopStep \/ LoopEnd \/ CallUkfStep
    \/ PoolFinish \/ PoolFail \/ PoolCancel
    \/ Predict \/ Correct

SpecFilter == InitFilter /\ [][NextFilter]_vars

---------------------------------------------------------------------------
\* Properties of the forward pass.

\* every active constraint holds on the augmented state X
ConstraintsHold(X) ==
    /\ \A i \in 1..n_state_obs :
          /\ ConstrStateHigh[i] => ~Gt(X[i], ConstrStateValueHigh[i])
          /\ ConstrStateLow[i]  => ~Lt(X[i], ConstrStateValueLow[i])
    /\ \A i \in 1..n_pars :
          /\ ConstrParsHigh[i] => ~Gt(X[n_state_obs + i], ConstrParsValueHigh[i])
          /\ ConstrParsLow[i]  => ~Lt(X[n_state_obs + i], ConstrParsValueLow[i])

\* C1: for every model with n_s >= n_o and every constraint table, the
\* clipping raises no error and the corrected augmented state returned by
\* ukf_step satisfies every active constraint.
C1_ConstraintRespect ==
    /\ exc # "IndexError"
    /\ frame.X_corr # <<>> => ConstraintsHold(frame.X_corr)

\* C2: filter, run over a series of K timestamps, hands back buffers that
\* hold for every step k the corrected state, the factor S_k, the predicted
\* output mean and its factor Sy_k, in insertion order and indexed by k.
C2_FilterHandsBackBuffers ==
    (mode = "filter" /\ pc = "done") =>
        /\ ret.kind = "tuple"
        /\ Len(ret.val) = 4
        /\ \A b \in 1..4 : Len(ret.val[b]) = Len(measuredOuts)
        /\ ret.val[1] = xList
        /\ ret.val[2] = sqrtPList
        /\ \A n \in 1..Len(trace) :
              trace[n].ev = "return" =>
                  /\ ret.val[3][trace[n].i + 1] = trace[n].v[3]
                  /\ ret.val[4][trace[n].i + 1] = trace[n].v[4]

\* the lists of filter hold the initial condition and what the steps
\* 1..iStep-1 returned, and nothing else
BuffersUpToStep ==
    /\ Len(xList) = iStep /\ Len(sqrtPList) = iStep
    /\ \A n \in 1..Len(trace) :
          trace[n].ev = "return" =>
              /\ trace[n].i < iStep
              /\ xList[trace[n].i + 1] = trace[n].v[1]
              /\ sqrtPList[trace[n].i + 1] = trace[n].v[2]
    /\ \A n \in 1..Len(trace) : trace[n].i <= iStep

\* C3: if a batch of the pool fails or is cancelled during step k of filter,
\* the failure propagates to the caller of filter, the lists of filter hold
\* exactly the initial condition and the steps 1..k-1, and nothing is run
\* after the failure.
C3_PoolFailurePropagates ==
    [][ /\ (mode = "filter" /\ pc \in {"batch1", "batch2"}
               /\ pool.status \in {"failed", "cancelled"})
           => /\ pc' = "raised"
              /\ exc' = PoolException(pool)
              /\ BuffersUpToStep
              /\ UNCHANGED <<xList, sqrtPList, iStep, trace>>
        /\ (mode = "filter" /\ pc = "raised") => UNCHANGED vars
      ]_vars

\* the second batch of the second step of filter failed, and filter raised
C3_Witness ==
    /\ mode = "filter" /\ pc = "raised" /\ exc = "SimulationFailure"
    /\ pool.eps /\ pool.failed > 1
    /\ iStep = 2 /\ Len(xList) = 2

\* C4: for every row i of the sigma points, row i of X_proj, Z_proj and
\* Xfull_proj is the result of the task built from row i, whatever the order
\* in which the simulations completed and whatever the size of the pool.
C4_RowsFollowTasks ==
    /\ frame.X_proj # <<>> =>
          \A i \in 1..Len(frame.Xs) :
              /\ frame.X_proj[i] =
                    SimAugmented(Simulate(TaskOf(frame.Xs[i]), frame.t_old, frame.t,
                                          FALSE, frame.mstate))
              /\ frame.Z0_proj[i] =
                    SimOutputs(Simulate(TaskOf(frame.Xs[i]), frame.t_old, frame.t,
                                        FALSE, frame.mstate))
              /\ frame.Xfull_proj[i] =
                    SimFull(Simulate(TaskOf(frame.Xs[i]), frame.t_old, frame.t,
                                     FALSE, frame.mstate))
    /\ frame.Z_proj # <<>> =>
          \A i \in 1..Len(frame.Xs2) :
              frame.Z_proj[i] =
                  SimOutputs(Simulate(TaskOf(frame.Xs2[i]), frame.t, frame.t, TRUE,
                                      frame.Xfull_ave))

\* both projections of a step are assembled, the simulations of the first
\* one having completed out of order on a pool of two workers, and the rows
\* of the projection differ
C4_Witness ==
    /\ frame.X_proj # <<>> /\ frame.Z_proj # <<>>
    /\ frame.reordered /\ pool.size = 2
    /\ Len(frame.Xs) = 1 + 2 * N
    /\ \E i \in 1..Len(frame.X_proj) : frame.X_proj[i] # frame.X_proj[1]

\* C5: whenever x, pars or sqrtP given to computeSigmaPoints does not match
\* n_o, n_p and N, the matrix returned is empty, and ukf_step reports a
\* dimension error and aborts the step instead of continuing with it.
C5_DimensionRejected ==
    (mode = "ukf_step" /\ ~frame.fit) =>
        /\ frame.Xs = <<>>
        /\ pc = "raised"
        /\ exc = "DimensionMismatch"

---------------------------------------------------------------------------
\* smooth: the backward pass over a filtered trajectory Xhat, S.

\* the positional parameters of the methods smooth calls, self not counted
Signature(f) ==
    CASE f = "computeSigmaPoints" -> [required |-> 3, optional |-> 2]
      [] f = "averageProj"        -> [required |-> 1, optional |-> 0]
      [] f = "sigmaPointProj"     -> [required |-> 3, optional |-> 0]
      [] f = "computeS"           -> [required |-> 3, optional |-> 0]
      [] f = "computeCxx"         -> [required |-> 2, optional |-> 0]
      [] f = "constrainedState"   -> [required |-> 1, optional |-> 0]
      [] f = "cholUpdate"         -> [required |-> 3, optional |-> 0]

\* a call of a method with a number of positional arguments
PyCall(f, given) ==
    IF given < Signature(f).required
          \/ given > Signature(f).required + Signature(f).optional
    THEN "TypeError" ELSE "none"

\* the calls of one pass of the loop of smooth, in order, with the number of
\* arguments each is given
SmoothCalls ==
    << [f |-> "computeSigmaPoints", given |-> 2],
       [f |-> "averageProj",        given |-> 1],
       [f |-> "sigmaPointProj",     given |-> 6],
       [f |-> "averageProj",        given |-> 1],
       [f |-> "computeS",           given |-> 3],
       [f |-> "computeCxx",         given |-> 4],
       [f |-> "constrainedState",   given |-> 1],
       [f |-> "cholUpdate",         given |-> 3] >>

\* the exception of the first call of the pass that raises one
RECURSIVE FirstRaised(_)
FirstRaised(calls) ==
    IF calls = <<>> THEN "none"
    ELSE IF PyCall(Head(calls).f, Head(calls).given) # "none"
         THEN PyCall(Head(calls).f, Head(calls).given)
         ELSE FirstRaised(Tail(calls))

smoothFrame == <<dimVars, paramVars, call, raised, constrVars, Xs, Xave, cholVars,
                 model,
                 measuredOuts, pool, iStep, xList, sqrtPList, frame, trace, Xhat, S_hat>>

InitSmooth ==
    /\ \E no \in 1..MaxStates, np \in 0..MaxPars :
          /\ n_state = no /\ n_state_obs = no /\ n_pars = np /\ n_outputs = 1
          /\ augmented = FALSE /\ N = NumSigma(no, np, 1, FALSE)
    /\ call = [op |-> "__init__"]
    /\ LET p == ParamsAfter([op |-> "__init__"])
       IN  /\ alpha = p.alpha /\ beta = p.beta /\ k = p.k /\ lambd = p.lambd
           /\ sqrtC = p.sqrtC /\ W_m = p.W_m /\ W_c = p.W_c /\ raised = p.raised
    /\ DefaultConstraints
    /\ SigmaIdle /\ CholIdle
    /\ model = <<>> /\ measuredOuts = <<>> /\ pool = <<>>
    /\ iStep = 0 /\ xList = <<>> /\ sqrtPList = <<>>
    /\ frame = <<>> /\ trace = <<>> /\ ret = Pending /\ mode = "none"
    /\ \E K \in 1..MaxK :
          \E X \in [1..K -> VecInputs(N)], Sf \in FactorInputs(N, N) :
              /\ Xhat = X
              /\ S_hat = [kk \in 1..K |-> Sf]
    /\ Xsmooth = <<>> /\ Ssmooth = <<>> /\ iSmooth = 0

\* lines 757-762: the copies, the number of time steps
CallSmooth ==
    /\ pc = "idle" /\ mode = "none"
    /\ mode' = "smooth"
    /\ arg' = [op |-> "smooth", Xhat |-> Xhat, S |-> S_hat]
    /\ Xsmooth' = Xhat /\ Ssmooth' = S_hat
    /\ iSmooth' = Len(Xhat) - 2
    /\ pc' = "smooth_loop"
    /\ UNCHANGED <<smoothFrame, exc, ret>>

\* lines 834-848 for the row i, with the gain D (a multiple d of the
\* identity), the propagated mean and the factor that lstsq, the simulation
\* and cholUpdate give
SmoothRow(d, Xave_plus_1, S_i, cs) ==
    IF cs.exc # "none"
    THEN /\ pc' = "raised" /\ exc' = cs.exc
         /\ UNCHANGED <<Xsmooth, Ssmooth, iSmooth>>
    ELSE /\ Xsmooth' = [Xsmooth EXCEPT ![iSmooth + 1] =
                           cs.X \o PySlice(Xhat[iSmooth + 1], n_state_obs, N)]
         /\ Ssmooth' = [Ssmooth EXCEPT ![iSmooth + 1] = S_i]
         /\ iSmooth' = iSmooth - 1
         /\ pc' = pc /\ exc' = exc

SmoothBody(d, Xave_plus_1, S_i) ==
    SmoothRow(d, Xave_plus_1, S_i,
              constrainedState(
                  [a \in 1..n_state_obs |->
                      Add(Xhat[iSmooth + 1][a],
                          Mul(d, Sub(Xsmooth[iSmooth + 2][a], Xave_plus_1[a])))]))

\* one pass of the loop "for i in range(nTimeStep-2,-1,-1)"
SmoothStep ==
    /\ pc = "smooth_loop" /\ iSmooth >= 0
    /\ IF FirstRaised(SmoothCalls) # "none"
       THEN /\ pc' = "raised" /\ exc' = FirstRaised(SmoothCalls)
            /\ UNCHANGED <<Xsmooth, Ssmooth, iSmooth>>
       ELSE \E d \in {Zero, One}, Xave_plus_1 \in VecInputs(N),
               S_i \in FactorOutputs(N) :
               SmoothBody(d, Xave_plus_1, S_i)
    /\ UNCHANGED <<smoothFrame, arg, ret, mode>>

\* line 849
SmoothReturn ==
    /\ pc = "smooth_loop" /\ iSmooth < 0
    /\ ret' = [kind |-> "tuple", val |-> <<Xsmooth, Ssmooth>>]
    /\ pc' = "done"
    /\ UNCHANGED <<smoothFrame, arg, exc, mode, Xsmooth, Ssmooth, iSmooth>>

NextSmooth == CallSmooth \/ SmoothStep \/ SmoothReturn

SpecSmooth == InitSmooth /\ [][NextSmooth]_vars

\* C8: for a filtered trajectory of K >= 1 steps smooth returns
\* (X_smooth, S_smooth): the last entry is the filtered last entry, every
\* parameter slice is the filtered one, and the arrays Xhat and S of the
\* caller are not modified.
C8_SmoothFrameEffect ==
    mode = "smooth" =>
        /\ pc # "raised"
        /\ pc = "done" =>
              /\ ret.kind = "tuple"
              /\ ret.val[1][Len(arg.Xhat)] = arg.Xhat[Len(arg.Xhat)]
              /\ ret.val[2][Len(arg.S)] = arg.S[Len(arg.S)]
              /\ \A kk \in 1..Len(arg.Xhat) :
                    PySlice(ret.val[1][kk], n_state_obs, N)
                        = PySlice(arg.Xhat[kk], n_state_obs, N)
              /\ Xhat = arg.Xhat /\ S_hat = arg.S

---------------------------------------------------------------------------
\* Properties of cholUpdate.

\* C11: cholUpdate leaves the factor L passed by the caller unchanged, for
\* every L, update matrix X and sign vector: it works on a private copy and
\* returns the updated copy.
C11_CallerFactorUnchanged ==
    (pc \in {"updated", "S_corr"} /\ arg.op = "cholUpdate") =>
        /\ cholL = arg.L
        /\ cholRet = cholUpdate(arg.L, arg.X, arg.W).ret

\* a call has returned a factor that differs from the one it was given
C11_Witness ==
    /\ pc \in {"updated", "S_corr"} /\ arg.op = "cholUpdate"
    /\ cholRet # arg.L /\ cholL = arg.L
    /\ Len(arg.L) >= 2

\* the square of L[0,0] after the columns j.. of X, from its square d2: every
\* column adds signs[0]*X[0,j]**2, a negative sum being replaced by zero
RECURSIVE DiagSquareAfter(_, _, _, _)
DiagSquareAfter(d2, X, sg, j) ==
    IF j > Cols(X) THEN d2
    ELSE DiagSquareAfter(SquareClamped(Add(d2, Mul(sg, Mul(X[1][j], X[1][j])))),
                         X, sg, j + 1)

---------------------------------------------------------------------------
\* Properties of the order of the calls of ukf_step and filter.

\* the calls that step i made on the model and the pool, in order
StepEvents(i) == SelectSeq(trace, LAMBDA e : e.i = i)
EventNames(s) == [n \in 1..Len(s) |-> s[n].ev]
Returned(i)   == \E n \in 1..Len(trace) : trace[n].ev = "return" /\ trace[n].i = i

\* C12: in every completed ukf_step the first pool batch over [t_old, t], the
\* write of the averaged full state to the model, the second pool batch over
\* [t, t + eps] and the write of the corrected observed states and parameters
\* happen in this order; two batches are run, and the model is written at no
\* other point of the step.
C12_StepEventOrder ==
    /\ \A i \in 0..iStep :
          Returned(i) =>
              /\ EventNames(StepEvents(i))
                    = << "ukf_step", "Run", "SetState", "Run", "SetStateSelected",
                         "SetParametersSelected", "return" >>
              /\ StepEvents(i)[2].v
                    = << StepEvents(i)[1].v[3], StepEvents(i)[1].v[4], FALSE >>
              /\ StepEvents(i)[4].v
                    = << StepEvents(i)[1].v[4], StepEvents(i)[1].v[4], TRUE >>
    /\ pc = "batch1" =>
          /\ ~pool.eps /\ pool.start = frame.t_old /\ pool.stop = frame.t
          /\ model.state = frame.mstate
          /\ model.pars = PySlice(frame.x, n_state_obs, n_state_obs + n_pars)
    /\ pc = "batch2" =>
          /\ pool.eps /\ pool.start = frame.t /\ pool.stop = frame.t
          /\ model.state = frame.Xfull_ave
          /\ pool.mstate = frame.Xfull_ave
          /\ model.pars = PySlice(frame.x, n_state_obs, n_state_obs + n_pars)
    /\ (pc \in {"loop", "done"} /\ frame.X_corr # <<>>) =>
          /\ PySlice(model.state, 0, n_state_obs) = PySlice(frame.X_corr, 0, n_state_obs)
          /\ PySlice(model.state, n_state_obs, n_state)
                = PySlice(frame.Xfull_ave, n_state_obs, n_state)
          /\ model.pars = PySlice(frame.X_corr, n_state_obs, Len(frame.X_corr))

\* the second step of filter has completed on a model with a state that is
\* not observed, and the averaged full state it wrote was not the state the
\* model had when the step began
C12_Witness ==
    /\ mode = "filter" /\ pc = "loop" /\ iStep = 3
    /\ Returned(2)
    /\ n_state > n_state_obs
    /\ frame.Xfull_ave # frame.mstate


\* the calls of ukf_step made so far, and the position in the log of an event
\* of step i
StepCalls == SelectSeq(trace, LAMBDA e : e.ev = "ukf_step")
PositionOf(ev, i) ==
    CHOOSE n \in 0..Len(trace) :
        IF \E q \in 1..Len(trace) : trace[q].ev = ev /\ trace[q].i = i
        THEN n > 0 /\ trace[n].ev = ev /\ trace[n].i = i
        ELSE n = 0

\* the observed states and the parameters of the model at construction
InitialMean == [j \in 1..n_state_obs |-> One] \o [j \in 1..n_pars |-> R(MaxVal)]

\* the calls of ukf_step made by filter are numbered 1, 2, ... in the order
\* they are made; call n is handed x[n-1] and sqrtP[n-1] (the model's state,
\* parameters and factor for n = 1, what call n-1 returned otherwise), the
\* times of rows n-1 and n and the measurement of row n, and is made after
\* call n-1 returned
StepsFollowRows ==
    /\ Len(StepCalls) <= Len(measuredOuts) - 1
    /\ \A n \in 1..Len(StepCalls) :
          /\ StepCalls[n].i = n
          /\ StepCalls[n].v = << xList[n], sqrtPList[n], measuredOuts[n].t,
                                 measuredOuts[n + 1].t, measuredOuts[n + 1].z >>
          /\ measuredOuts[n].t < measuredOuts[n + 1].t
          /\ IF n = 1
             THEN /\ xList[1] = InitialMean
                  /\ sqrtPList[1] = ModelCovStatePars(N)
             ELSE /\ Returned(n - 1)
                  /\ PositionOf("return", n - 1) < PositionOf("ukf_step", n)
                  /\ xList[n] = trace[PositionOf("return", n - 1)].v[1]
                  /\ sqrtPList[n] = trace[PositionOf("return", n - 1)].v[2]

\* C13: for a measurement series of K rows filter runs exactly K-1 ukf_steps,
\* one per pair of consecutive rows in increasing row order; step i starts
\* from the state and factor returned by step i-1 (the model's for i = 1),
\* uses the times of rows i-1 and i and the measurement of row i, and starts
\* only after step i-1 has finished. A call of filter that is over and was not
\* stopped by a failure of the pool has made and finished all K-1 steps.
C13_OneStepPerRowPair ==
    mode = "filter" =>
        /\ StepsFollowRows
        /\ (pc \in {"done", "raised"} /\ exc \notin {"SimulationFailure", "Cancelled"}) =>
              /\ Len(StepCalls) = Len(measuredOuts) - 1
              /\ \A n \in 1..Len(StepCalls) : Returned(n)


\* the model as the step before step i left it: as constructed for the first
\* step; otherwise the unobserved states written by SetState, the observed
\* states and the parameters written from the corrected state
ModelLeftBefore(i) ==
    IF i <= 1
    THEN [state |-> [j \in 1..n_state |-> One],
          pars  |-> [j \in 1..n_pars |-> R(MaxVal)]]
    ELSE [state |-> [j \in 1..n_state |->
                       IF j <= n_state_obs
                       THEN trace[PositionOf("return", i - 1)].v[1][j]
                       ELSE trace[PositionOf("SetState", i - 1)].v[j]],
          pars  |-> PySlice(trace[PositionOf("return", i - 1)].v[1], n_state_obs,
                            Len(trace[PositionOf("return", i - 1)].v[1]))]

\* C15: when the first pool batch of a ukf_step has failed (a task failed or
\* the batch was cancelled), the step has written nothing to the model: the
\* only calls of the step are ukf_step and the first pool.Run, and the model's
\* state and parameters are those the step found, which are those the previous
\* step left.
C15_NoWriteOnFirstBatchFailure ==
    (pc = "raised" /\ exc \in {"SimulationFailure", "Cancelled"} /\ ~pool.eps) =>
        /\ EventNames(StepEvents(iStep)) = << "ukf_step", "Run" >>
        /\ model.state = frame.mstate
        /\ model.pars = PySlice(frame.x, n_state_obs, n_state_obs + n_pars)
        /\ model = ModelLeftBefore(iStep)

C15_Witness ==
    /\ pc = "raised" /\ exc = "SimulationFailure" /\ ~pool.eps
    /\ mode = "filter" /\ iStep = 2 /\ Returned(1)
    /\ n_state > n_state_obs /\ n_pars > 0
    /\ model # ModelLeftBefore(1)

===========================================================================
